---- MODULE Spec2Model ----
(***************************************************************************)
(* The iterative decision-execution loop of intelligent_research:          *)
(* IterativeResearchOrchestrator.research_company, the FunctionRegistry    *)
(* it dispatches through, and the DataAccumulator (fact store and citation *)
(* ledger) the registered handlers write to.                               *)
(*                                                                         *)
(* Python values are tagged records [k, v]: a str is its sequence of       *)
(* characters, None and lists are kept apart from strings by the tag.      *)
(* dicts (params, decision entries) are records whose DOMAIN is the set of *)
(* keys present.  Timestamps (added_at, started_at) and console output are *)
(* left out: no branch of the loop reads them.                             *)
(***************************************************************************)
EXTENDS Integers, Sequences, FiniteSets, TLC

(***************************************************************************)
(* Bounds of the model.                                                    *)
(***************************************************************************)
MaxIterations == 2      \* stands for max_iterations (10 by default)
MaxSubjects == 2        \* companies researched by one orchestrator
MaxEntries == 3         \* decision entries read by one orchestrator

(***************************************************************************)
(* Python values.                                                          *)
(***************************************************************************)
Str(s) == [k |-> "str", v |-> s]
PyNone == [k |-> "none", v |-> <<>>]
List(items) == [k |-> "list", v |-> items]
IsStr(x) == x.k = "str"
\* bool(x): "", None and [] are falsy
Truthy(x) == x.v # <<>>
EmptyStr == Str(<<>>)
EmptyDict == [key \in {} |-> PyNone]
\* dict.get(key, default), and the value a keyword parameter is bound to
Get(dict, key, default) == IF key \in DOMAIN dict THEN dict[key] ELSE default

\* a dict, against the tagged values
IsDict(x) == "k" \notin DOMAIN x

Whitespace == {" ", "\t", "\n"}

RECURSIVE lstrip(_)
lstrip(s) == IF s # <<>> /\ Head(s) \in Whitespace THEN lstrip(Tail(s)) ELSE s

RECURSIVE rstrip(_)
rstrip(s) ==
    IF s # <<>> /\ s[Len(s)] \in Whitespace
    THEN rstrip(SubSeq(s, 1, Len(s) - 1))
    ELSE s

\* a strip that trims the front only
strip_leading(x) == Str(lstrip(x.v))

\* str.strip(); the caller has checked IsStr(x)
strip(x) == Str(rstrip(lstrip(x.v)))

(***************************************************************************)
(* DataAccumulator: the fact store and its citation ledger.                *)
(***************************************************************************)
\* citation_num of a fact saved without a source_url
None == 0

DataAccumulator(company_info) ==
    [ data |-> [ company |-> company_info,
                 contacts |-> <<>>,
                 pain_points |-> <<>>,
                 tech_stack |-> <<>>,
                 news |-> <<>>,
                 images |-> <<>>,
                 sources_explored |-> <<>>,
                 iterations |-> 0 ],
      citation_map |-> EmptyDict,
      citation_counter |-> 0 ]

\* a ledger that never reuses a number
get_citation_number_always_new(acc, url) ==
    LET n == acc.citation_counter + 1
    IN  [ acc |-> [acc EXCEPT !.citation_counter = n,
                              !.citation_map = (url :> n) @@ @],
          num |-> n ]

\* a ledger that forgets to store the advanced counter
get_citation_number_stale_counter(acc, url) ==
    IF url \in DOMAIN acc.citation_map
    THEN [acc |-> acc, num |-> acc.citation_map[url]]
    ELSE LET n == acc.citation_counter + 1
         IN  [ acc |-> [acc EXCEPT !.citation_map = (url :> n) @@ @],
               num |-> n ]

\* a ledger that hands out the counter before advancing it
get_citation_number_from_zero(acc, url) ==
    IF url \in DOMAIN acc.citation_map
    THEN [acc |-> acc, num |-> acc.citation_map[url]]
    ELSE LET n == acc.citation_counter
         IN  [ acc |-> [acc EXCEPT !.citation_counter = n + 1,
                                   !.citation_map = (url :> n) @@ @],
               num |-> n ]

\* returns the accumulator after the call and the citation number
get_citation_number(acc, url) ==
    IF url \in DOMAIN acc.citation_map
    THEN [acc |-> acc, num |-> acc.citation_map[url]]
    ELSE LET n == acc.citation_counter + 1
         IN  [ acc |-> [acc EXCEPT !.citation_counter = n,
                                   !.citation_map = (url :> n) @@ @],
               num |-> n ]

\* a variant that resolves the locator whether or not it is empty
CiteAlways(acc, source_url) == get_citation_number(acc, source_url)

\* citation_num = self._get_citation_number(source_url) if source_url else None
Cite(acc, source_url) ==
    IF Truthy(source_url)
    THEN get_citation_number(acc, source_url)
    ELSE [acc |-> acc, num |-> None]

add_contact(acc, name, title, email, phone, source, source_url) ==
    LET c == Cite(acc, source_url)
    IN  [c.acc EXCEPT !.data.contacts =
            Append(@, [ name |-> name, title |-> title, email |-> email,
                        phone |-> phone, source |-> source,
                        source_url |-> source_url, citation |-> c.num ])]

add_pain_point(acc, description, evidence, source, source_url) ==
    LET c == Cite(acc, source_url)
    IN  [c.acc EXCEPT !.data.pain_points =
            Append(@, [ description |-> description, evidence |-> evidence,
                        source |-> source, source_url |-> source_url,
                        citation |-> c.num ])]

add_technology(acc, tech, category, source, source_url) ==
    LET c == Cite(acc, source_url)
    IN  [c.acc EXCEPT !.data.tech_stack =
            Append(@, [ technology |-> tech, category |-> category,
                        source |-> source, source_url |-> source_url,
                        citation |-> c.num ])]

\* a news item is stored with its url and without a citation number
add_news(acc, title, summary, url, date) ==
    [acc EXCEPT !.data.news =
        Append(@, [title |-> title, summary |-> summary, url |-> url,
                   date |-> date])]

\* self.data["images"].extend(images)
add_images(acc, images) == [acc EXCEPT !.data.images = @ \o images]

add_source(acc, source, source_type) ==
    [acc EXCEPT !.data.sources_explored =
        Append(@, [source |-> source, type |-> source_type])]

\* a counter that advances by two
increment_iteration_twice(acc) == [acc EXCEPT !.data.iterations = @ + 2]

increment_iteration(acc) == [acc EXCEPT !.data.iterations = @ + 1]

get_context(acc) == acc.data

\* {num: url for url, num in self.citation_map.items()}: a later url of the
\* same number overwrites an earlier one, so one url per number survives
get_citations(acc) ==
    LET nums == {acc.citation_map[u] : u \in DOMAIN acc.citation_map}
    IN  [n \in nums |-> CHOOSE u \in DOMAIN acc.citation_map :
                            acc.citation_map[u] = n]

(***************************************************************************)
(* The orchestrator object, as the handlers see it:                        *)
(*   self.current_accumulator    PyNone, or the DataAccumulator of the     *)
(*                               subject being researched                  *)
(*   self.current_source_url     the inherited locator                     *)
(*   self.missing_functions      FunctionRegistry.missing_functions        *)
(*   self.missing_log            contents of missing_functions.json,       *)
(*                               PyNone while the file does not exist      *)
(* A handler returns the object after the call and the exception raised.   *)
(***************************************************************************)
Returned(self) == [self |-> self, raised |-> "none"]
Raised(self, exception) == [self |-> self, raised |-> exception]

\* WebsiteExplorer.explore_page: scraped says whether the cache or the
\* scraper produced the page; the url is handed back for citation
explore_page(url, reason, scraped) == [success |-> scraped, url |-> url]

\* WebsiteExplorer.search_linkedin and search_news are placeholders
search_linkedin(company, person) == [success |-> FALSE]
search_news(company, topics) == [success |-> FALSE]

\* a save_contact without the "if self.current_accumulator:" guard
save_contact_unguarded(self, params, env) ==
    LET name == params["name"]
        title == Get(params, "title", EmptyStr)
        email == Get(params, "email", EmptyStr)
        phone == Get(params, "phone", EmptyStr)
        source == Get(params, "source", EmptyStr)
        given_url == Get(params, "source_url", EmptyStr)
        source_url == IF ~Truthy(given_url)
                      THEN self.current_source_url
                      ELSE given_url
    IN  IF \E x \in {name, title, email, phone, source} : ~IsStr(x)
        THEN Raised(self, "AttributeError")
        ELSE IF ~Truthy(strip(name)) /\ ~Truthy(strip(email))
        THEN Returned(self)
        ELSE IF self.current_accumulator # PyNone
        THEN Returned([self EXCEPT !.current_accumulator =
                 add_contact(@, strip(name), strip(title), strip(email),
                             strip(phone), strip(source), source_url)])
        ELSE Raised(self, "AttributeError")

\* a gate that lets a phone number alone through
save_contact_phone_counts(self, params, env) ==
    LET name == params["name"]
        title == Get(params, "title", EmptyStr)
        email == Get(params, "email", EmptyStr)
        phone == Get(params, "phone", EmptyStr)
        source == Get(params, "source", EmptyStr)
        given_url == Get(params, "source_url", EmptyStr)
        source_url == IF ~Truthy(given_url)
                      THEN self.current_source_url
                      ELSE given_url
    IN  IF \E x \in {name, title, email, phone, source} : ~IsStr(x)
        THEN Raised(self, "AttributeError")
        ELSE IF ~Truthy(strip(name)) /\ ~Truthy(strip(email)) /\ ~Truthy(strip(phone))
        THEN Returned(self)
        ELSE IF self.current_accumulator # PyNone
        THEN Returned([self EXCEPT !.current_accumulator =
                 add_contact(@, strip(name), strip(title), strip(email),
                             strip(phone), strip(source), source_url)])
        ELSE Returned(self)

save_contact(self, params, env) ==
    LET name == params["name"]
        title == Get(params, "title", EmptyStr)
        email == Get(params, "email", EmptyStr)
        phone == Get(params, "phone", EmptyStr)
        source == Get(params, "source", EmptyStr)
        given_url == Get(params, "source_url", EmptyStr)
        source_url == IF ~Truthy(given_url)
                      THEN self.current_source_url
                      ELSE given_url
    IN  IF \E x \in {name, title, email, phone, source} : ~IsStr(x)
        THEN Raised(self, "AttributeError")
        ELSE IF ~Truthy(strip(name)) /\ ~Truthy(strip(email))
        THEN Returned(self)
        ELSE IF self.current_accumulator # PyNone
        THEN Returned([self EXCEPT !.current_accumulator =
                 add_contact(@, strip(name), strip(title), strip(email),
                             strip(phone), strip(source), source_url)])
        ELSE Returned(self)

save_pain_point(self, params, env) ==
    LET description == params["description"]
        evidence == Get(params, "evidence", EmptyStr)
        source == Get(params, "source", EmptyStr)
        given_url == Get(params, "source_url", EmptyStr)
        source_url == IF ~Truthy(given_url)
                      THEN self.current_source_url
                      ELSE given_url
    IN  IF self.current_accumulator # PyNone
        THEN LET saved == [self EXCEPT !.current_accumulator =
                     add_pain_point(@, description, evidence, source, source_url)]
             IN  \* the log line slices description[:50]
                 IF description = PyNone
                 THEN Raised(saved, "TypeError")
                 ELSE Returned(saved)
        ELSE Returned(self)

RECURSIVE add_technologies(_, _, _)
add_technologies(acc, technologies, source_url) ==
    IF technologies = <<>>
    THEN acc
    ELSE add_technologies(
             add_technology(acc, Head(technologies), EmptyStr,
                            Str(<<"A", "I">>), source_url),
             Tail(technologies), source_url)

extract_tech_stack(self, params, env) ==
    LET technologies == params["technologies"]
        given_url == Get(params, "source_url", EmptyStr)
        source_url == IF ~Truthy(given_url)
                      THEN self.current_source_url
                      ELSE given_url
        \* for tech in technologies: a str yields its characters
        items == IF IsStr(technologies)
                 THEN [i \in 1..Len(technologies.v) |-> Str(<<technologies.v[i]>>)]
                 ELSE technologies.v
    IN  IF self.current_accumulator # PyNone
        THEN IF technologies = PyNone
             THEN Raised(self, "TypeError")
             ELSE Returned([self EXCEPT !.current_accumulator =
                      add_technologies(@, items, source_url)])
        ELSE Returned(self)

\* an explore_page that takes the url as citation context before it knows
\* whether the page could be read
explore_page_handler_eager(self, params, env) ==
    LET r == explore_page(params["url"], Get(params, "reason", EmptyStr), env.scraped)
        located == [self EXCEPT !.current_source_url = r.url]
    IN  IF r.success /\ self.current_accumulator # PyNone
        THEN Returned([located EXCEPT !.current_accumulator =
                 add_source(@, r.url, "webpage")])
        ELSE Returned(located)

\* an explore_page that records the source but not the citation context
explore_page_handler_no_context(self, params, env) ==
    LET r == explore_page(params["url"], Get(params, "reason", EmptyStr), env.scraped)
    IN  IF r.success /\ self.current_accumulator # PyNone
        THEN Returned([self EXCEPT !.current_accumulator =
                 add_source(@, r.url, "webpage")])
        ELSE Returned(self)

explore_page_handler(self, params, env) ==
    LET r == explore_page(params["url"], Get(params, "reason", EmptyStr), env.scraped)
        located == IF r.success
                   THEN [self EXCEPT !.current_source_url = r.url]
                   ELSE self
    IN  IF r.success /\ self.current_accumulator # PyNone
        THEN Returned([located EXCEPT !.current_accumulator =
                 add_source(@, r.url, "webpage")])
        ELSE Returned(located)

search_linkedin_handler(self, params, env) ==
    LET r == search_linkedin(params["company"], Get(params, "person", EmptyStr))
    IN  IF r.success /\ self.current_accumulator # PyNone
        THEN Returned([self EXCEPT !.current_accumulator =
                 add_source(@, params["company"], "social")])
        ELSE Returned(self)

search_news_handler(self, params, env) ==
    LET r == search_news(params["company"], Get(params, "topics", PyNone))
    IN  Returned(self)

download_image(self, params, env) == Returned(self)

save_company_info(self, params, env) == Returned(self)

(***************************************************************************)
(* FunctionRegistry.                                                       *)
(***************************************************************************)
\* the def line of each handler _register_functions registers
Signature ==
    [ save_contact |->
          [required |-> {"name"},
           optional |-> {"title", "email", "phone", "source", "source_url"}],
      save_pain_point |->
          [required |-> {"description"},
           optional |-> {"evidence", "source", "source_url"}],
      download_image |->
          [required |-> {"url"}, optional |-> {"person_name", "context"}],
      explore_page |->
          [required |-> {"url"}, optional |-> {"reason"}],
      search_linkedin |->
          [required |-> {"company"}, optional |-> {"person"}],
      search_news |->
          [required |-> {"company"}, optional |-> {"topics"}],
      extract_tech_stack |->
          [required |-> {"technologies"}, optional |-> {"source_url"}],
      save_company_info |->
          [required |-> {"key", "value"}, optional |-> {}] ]

\* self.registry.functions after _register_functions
functions == DOMAIN Signature

has_function(name) == name \in functions

\* self.functions[name](**params): the call binds, or raises TypeError
Binds(name, params) ==
    /\ Signature[name].required \subseteq DOMAIN params
    /\ DOMAIN params \subseteq Signature[name].required \cup Signature[name].optional

Call(name, self, params, env) ==
    CASE name = "save_contact" -> save_contact(self, params, env)
      [] name = "save_pain_point" -> save_pain_point(self, params, env)
      [] name = "download_image" -> download_image(self, params, env)
      [] name = "explore_page" -> explore_page_handler(self, params, env)
      [] name = "search_linkedin" -> search_linkedin_handler(self, params, env)
      [] name = "search_news" -> search_news_handler(self, params, env)
      [] name = "extract_tech_stack" -> extract_tech_stack(self, params, env)
      [] name = "save_company_info" -> save_company_info(self, params, env)

\* a log that records the call without counting it
log_missing_overwrite(self, name, env) ==
    LET counted == [self EXCEPT !.missing_functions = (name :> 1) @@ @]
    IN  IF env.written
        THEN [counted EXCEPT !.missing_log = counted.missing_functions]
        ELSE counted

\* env.written says whether mkdir, open and json.dump went through; an
\* IOError is caught and only printed
log_missing(self, name, env) ==
    LET counted == [self EXCEPT !.missing_functions =
                        (name :> Get(@, name, 0) + 1) @@ @]
    IN  IF env.written
        THEN [counted EXCEPT !.missing_log = counted.missing_functions]
        ELSE counted

\* (success, result) as execute returns it
Pair(ok, result, self) ==
    [ok |-> ok, result |-> result, raised |-> "none", self |-> self]

\* no pair: the exception leaves execute
Escaped(exception, self) ==
    [ok |-> FALSE, result |-> "no result", raised |-> exception, self |-> self]

\* an execute with the except TypeError clause only
execute_except_type_error(self, name, params, env) ==
    IF ~has_function(name)
    THEN Pair(FALSE, "not implemented", log_missing(self, name, env))
    ELSE IF ~IsDict(params) \/ ~Binds(name, params)
    THEN Pair(FALSE, "parameter error", self)
    ELSE LET r == Call(name, self, params, env)
         IN  CASE r.raised = "none" -> Pair(TRUE, "None", r.self)
               [] r.raised = "TypeError" -> Pair(FALSE, "parameter error", r.self)
               [] OTHER -> Escaped(r.raised, r.self)

\* returns (success, result) and the orchestrator after the call; **params
\* of a value that is no mapping raises TypeError inside the try
execute(self, name, params, env) ==
    IF ~has_function(name)
    THEN Pair(FALSE, "not implemented", log_missing(self, name, env))
    ELSE IF ~IsDict(params) \/ ~Binds(name, params)
    THEN Pair(FALSE, "parameter error", self)
    ELSE LET r == Call(name, self, params, env)
         IN  CASE r.raised = "none" -> Pair(TRUE, "None", r.self)
               [] r.raised = "TypeError" -> Pair(FALSE, "parameter error", r.self)
               [] OTHER -> Pair(FALSE, "failed", r.self)

(***************************************************************************)
(* What the decision oracle may put in a decision.  An entry is a dict     *)
(* {function, params} (either key may be missing) or, from a degraded      *)
(* oracle, a JSON value that is no dict.                                   *)
(***************************************************************************)
U1 == Str(<<"u">>)
U2 == Str(<<"w">>)
Jane == Str(<<" ", "J", " ">>)
Mail == Str(<<" ", "e">>)
Phone == Str(<<"5">>)
Blank == Str(<<" ", "\t">>)
Text == Str(<<"d">>)

Entry(name, params) == [function |-> name, params |-> params]

BlankContact ==
    Entry("save_contact", [name |-> Blank, email |-> EmptyStr, phone |-> Phone,
                           title |-> Text, source |-> Text, source_url |-> U1])
BlankContactBare == Entry("save_contact", [name |-> EmptyStr, email |-> Blank])
NamedContact == Entry("save_contact", [name |-> Jane, email |-> EmptyStr])
NamedContactAt ==
    Entry("save_contact", [name |-> Jane, email |-> EmptyStr, phone |-> Phone,
                           source_url |-> U2])
MailContact == Entry("save_contact", [name |-> EmptyStr, email |-> Mail])
MailOnlyContact == Entry("save_contact", [email |-> Mail, phone |-> Phone])
NoneContact == Entry("save_contact", [name |-> PyNone, email |-> Mail])
PainPoint == Entry("save_pain_point", [description |-> Text])
PainPointAt == Entry("save_pain_point", [description |-> Text, source_url |-> U1])
NonePainPoint == Entry("save_pain_point", [description |-> PyNone])
TechStack ==
    Entry("extract_tech_stack", [technologies |-> List(<<Str(<<"a">>), Str(<<"b">>)>>)])
TechStackAt ==
    Entry("extract_tech_stack", [technologies |-> Str(<<"c">>), source_url |-> U2])
NoneTechStack == Entry("extract_tech_stack", [technologies |-> PyNone])
Explore1 == Entry("explore_page", [url |-> U1])
Explore2 == Entry("explore_page", [url |-> U2, reason |-> Text])
LinkedIn == Entry("search_linkedin", [company |-> Text])
News == Entry("search_news", [company |-> Text, topics |-> List(<<Text>>)])
Image == Entry("download_image", [url |-> U1, person_name |-> Jane])
CompanyInfo == Entry("save_company_info", [key |-> Text, value |-> Text])
CompanyInfoExtra ==
    Entry("save_company_info", [key |-> Text, value |-> Text, note |-> Text])
Unknown1 == Entry("analyze_sentiment", [param |-> Text])
Unknown2 == Entry("find_competitors", EmptyDict)
Nameless == Entry("", [url |-> U1])
NoFunction == [params |-> [url |-> U2]]
NoParams == [function |-> "explore_page"]
ListParams == Entry("save_company_info", List(<<Text, Text>>))
NotADict == Str(<<"e">>)

\* the call test_function_registry makes on the orchestrator's registry
TestContact ==
    Entry("save_contact", [name |-> Jane, title |-> Text, email |-> Mail])

\* one run of the orchestrator draws its entries from one of these
Vocabularies ==
    { {BlankContact, BlankContactBare, NamedContact, NamedContactAt, PainPointAt,
       Explore1},
      {Explore1, Explore2, NamedContact, PainPoint},
      {Unknown1, Unknown2, Nameless, CompanyInfo, ListParams},
      {MailContact, MailOnlyContact, NoneContact, NonePainPoint, NoneTechStack,
       CompanyInfoExtra, NotADict},
      {LinkedIn, News, Image, TechStack, TechStackAt, NoParams, NoFunction,
       Explore2} }

\* the subjects: row i of the CSV; every second row has a website, and the
\* first row is a short one, for which csv.DictReader gives Title = None
Company(i) ==
    [ Title |-> IF i = 1 THEN PyNone ELSE Str([j \in 1..i |-> "c"]),
      WebsiteURL |-> IF i % 2 = 0 THEN U1 ELSE EmptyStr ]

StatusFields ==
    { [status |-> "complete"], [status |-> "continue"], [status |-> "Complete"],
      EmptyDict }

(***************************************************************************)
(* State.                                                                  *)
(***************************************************************************)
VARIABLES
    vocab,                \* the entries the oracle uses in this run
    pc,                   \* where research_company is
    subject,              \* number of research_company calls started
    max_iterations,       \* the budget of the running call
    iteration,            \* the loop variable
    decision,             \* the decision of the running iteration
    cursor,               \* next position of the decision to read
    entries_read,         \* entries read or executed so far (bounded)
    current_accumulator,  \* self.current_accumulator
    current_source_url,   \* self.current_source_url
    missing_functions,    \* self.registry.missing_functions
    missing_log,          \* missing_functions.json
    dispatched,           \* positions read in the running iteration
    last_call,            \* the registry.execute call of the last step, if any
    status_read,          \* decision.get("status", "continue") as last read
    oracle_calls,         \* analyze_data calls made for the running subject
    terminal,             \* how the last research_company call ended
    results,              \* run_batch_research: one entry per company done
    summary,              \* _batch_summary.json, PyNone until it is written
    test_accumulator      \* a DataAccumulator used without the orchestrator

vars == << vocab, pc, subject, max_iterations, iteration, decision, cursor,
           entries_read, current_accumulator, current_source_url,
           missing_functions, missing_log, dispatched, last_call,
           status_read, oracle_calls, terminal, results, summary,
           test_accumulator >>

\* what research_company and the registry leave alone
outside == << results, summary, test_accumulator >>

\* A decision is kept by the lengths of its two lists.  The loop reads the
\* decision piece by piece, and the model draws each piece when it is read:
\* the entry at a position from the vocabulary, the rest of the dict (the
\* status key, or no such key) at the status check.  An oracle that gives
\* entries that are no dicts also gives decisions that are no dicts.
Decisions(room) ==
    { d \in [actions : 0..room, next_steps : 0..room] :
        d.actions + d.next_steps <= room }
    \cup (vocab \cap { NotADict })

Self ==
    [ current_accumulator |-> current_accumulator,
      current_source_url |-> current_source_url,
      missing_functions |-> missing_functions,
      missing_log |-> missing_log ]

NoDecision == [actions |-> 0, next_steps |-> 0]
NoCall ==
    [name |-> "", params |-> EmptyDict, ok |-> FALSE, result |-> "no call",
     raised |-> "none"]

\* the two for loops the other way round
DispatchOrderStepsFirst(d) ==
    [i \in 1..(d.actions + d.next_steps) |->
        IF i <= d.next_steps
        THEN [list |-> "next_steps", index |-> i]
        ELSE [list |-> "actions", index |-> i - d.next_steps]]

\* the two for loops of one iteration: all of actions, then all of next_steps
DispatchOrder(d) ==
    [i \in 1..(d.actions + d.next_steps) |->
        IF i <= d.actions
        THEN [list |-> "actions", index |-> i]
        ELSE [list |-> "next_steps", index |-> i - d.actions]]

\* a log file left by an earlier process is loaded by _load_missing_log
InitialLogs == {PyNone}

Init ==
    /\ vocab \in Vocabularies
    /\ pc = "idle"
    /\ subject = 0
    /\ max_iterations = 0
    /\ iteration = 0
    /\ decision = NoDecision
    /\ cursor = 0
    /\ entries_read = 0
    /\ current_accumulator = PyNone
    /\ current_source_url = EmptyStr
    /\ missing_log \in InitialLogs
    /\ missing_functions = IF missing_log = PyNone THEN EmptyDict ELSE missing_log
    /\ dispatched = <<>>
    /\ last_call = NoCall
    /\ status_read = "unread"
    /\ oracle_calls = 0
    /\ terminal = "none"
    /\ results = <<>>
    /\ summary = PyNone
    /\ test_accumulator = PyNone

Idle == pc \in {"idle", "returned", "raised"}

\* research_company(company), up to the loop, for the next row of the CSV;
\* the batch has recorded the companies before it
ResearchCompany ==
    /\ Idle
    /\ subject < MaxSubjects
    /\ Len(results) = subject
    /\ subject' = subject + 1
    /\ max_iterations' = MaxIterations
    /\ iteration' = 0
    /\ current_accumulator' =
          LET company == Company(subject')
              accumulator == DataAccumulator(company)
              website == Get(company, "WebsiteURL", EmptyStr)
          IN  IF Truthy(website)
              THEN add_source(accumulator, website, "homepage")
              ELSE accumulator
    /\ pc' = "loop"
    /\ decision' = NoDecision
    /\ cursor' = 0
    /\ dispatched' = <<>>
    /\ last_call' = NoCall
    /\ status_read' = "unread"
    /\ oracle_calls' = 0
    /\ terminal' = "running"
    /\ UNCHANGED << outside, vocab, entries_read, current_source_url,
                    missing_functions, missing_log >>

\* an oracle failure that hands back a fresh accumulator
OracleFailsDiscarding ==
    /\ pc = "loop"
    /\ iteration < max_iterations
    /\ iteration' = iteration + 1
    /\ current_accumulator' =
          increment_iteration(DataAccumulator(current_accumulator.data.company))
    /\ oracle_calls' = oracle_calls + 1
    /\ dispatched' = <<>>
    /\ last_call' = NoCall
    /\ status_read' = "unread"
    /\ pc' = "returned"
    /\ terminal' = "ABORTED"
    /\ UNCHANGED << outside, vocab, subject, max_iterations, decision, cursor, entries_read,
                    current_source_url, missing_functions, missing_log >>

\* one more pass: increment_iteration, then analyze_data raises
OracleFails ==
    /\ pc = "loop"
    /\ iteration < max_iterations
    /\ iteration' = iteration + 1
    /\ current_accumulator' = increment_iteration(current_accumulator)
    /\ oracle_calls' = oracle_calls + 1
    /\ dispatched' = <<>>
    /\ last_call' = NoCall
    /\ status_read' = "unread"
    /\ pc' = "returned"
    /\ terminal' = "ABORTED"
    /\ UNCHANGED << outside, vocab, subject, max_iterations, decision, cursor, entries_read,
                    current_source_url, missing_functions, missing_log >>

\* a pass that looks at the status before it dispatches anything
OracleDecidesStatusFirst(d) ==
    /\ pc = "loop"
    /\ iteration < max_iterations
    /\ iteration' = iteration + 1
    /\ current_accumulator' = increment_iteration(current_accumulator)
    /\ oracle_calls' = oracle_calls + 1
    /\ dispatched' = <<>>
    /\ last_call' = NoCall
    /\ status_read' = "unread"
    /\ IF IsDict(d)
       THEN /\ decision' = d
            /\ cursor' = 1
            /\ pc' = "status"
            /\ terminal' = terminal
       ELSE /\ decision' = NoDecision
            /\ cursor' = 0
            /\ pc' = "raised"
            /\ terminal' = "RAISED"
    /\ UNCHANGED << outside, vocab, subject, max_iterations, entries_read,
                    current_source_url, missing_functions, missing_log >>

\* one more pass: increment_iteration, then analyze_data returns d
OracleDecides(d) ==
    /\ pc = "loop"
    /\ iteration < max_iterations
    /\ iteration' = iteration + 1
    /\ current_accumulator' = increment_iteration(current_accumulator)
    /\ oracle_calls' = oracle_calls + 1
    /\ dispatched' = <<>>
    /\ last_call' = NoCall
    /\ status_read' = "unread"
    /\ IF IsDict(d)
       THEN /\ decision' = d
            /\ cursor' = 1
            /\ pc' = IF Len(DispatchOrder(d)) = 0 THEN "status" ELSE "dispatch"
            /\ terminal' = terminal
       ELSE \* decision.get raises AttributeError
            /\ decision' = NoDecision
            /\ cursor' = 0
            /\ pc' = "raised"
            /\ terminal' = "RAISED"
    /\ UNCHANGED << outside, vocab, subject, max_iterations, entries_read,
                    current_source_url, missing_functions, missing_log >>

\* a range one pass short: range(1, max_iterations)
RangeExhaustedEarly ==
    /\ pc = "loop"
    /\ iteration >= max_iterations - 1
    /\ pc' = "returned"
    /\ terminal' = "BUDGET_EXHAUSTED"
    /\ last_call' = NoCall
    /\ UNCHANGED << outside, vocab, subject, max_iterations, iteration, decision, cursor,
                    entries_read, current_accumulator, current_source_url,
                    missing_functions, missing_log, dispatched, status_read,
                    oracle_calls >>

\* range(1, max_iterations + 1) is used up
RangeExhausted ==
    /\ pc = "loop"
    /\ iteration >= max_iterations
    /\ pc' = "returned"
    /\ terminal' = "BUDGET_EXHAUSTED"
    /\ last_call' = NoCall
    /\ UNCHANGED << outside, vocab, subject, max_iterations, iteration, decision, cursor,
                    entries_read, current_accumulator, current_source_url,
                    missing_functions, missing_log, dispatched, status_read,
                    oracle_calls >>

\* the state after success, result = registry.execute(name, params)
Executed(name, params, env) ==
    LET r == execute(Self, name, params, env)
    IN  /\ current_accumulator' = r.self.current_accumulator
        /\ current_source_url' = r.self.current_source_url
        /\ missing_functions' = r.self.missing_functions
        /\ missing_log' = r.self.missing_log
        /\ last_call' = [name |-> name, params |-> params,
                         ok |-> r.ok, result |-> r.result, raised |-> r.raised]

\* a loop that gives the subject up at the first failed call
DispatchHaltingOnFailure(entry, env) ==
    /\ pc = "dispatch"
    /\ entries_read' = entries_read + 1
    /\ IF ~IsDict(entry)
       THEN \* action.get raises AttributeError
            /\ pc' = "raised"
            /\ terminal' = "RAISED"
            /\ last_call' = NoCall
            /\ UNCHANGED << cursor, dispatched, current_accumulator,
                            current_source_url, missing_functions, missing_log >>
       ELSE LET func_name == Get(entry, "function", "")
                params == Get(entry, "params", EmptyDict)
                position == DispatchOrder(decision)[cursor]
            IN  /\ IF func_name # ""
                   THEN Executed(func_name, params, env)
                   ELSE /\ last_call' = NoCall
                        /\ UNCHANGED << current_accumulator, current_source_url,
                                        missing_functions, missing_log >>
                /\ dispatched' = Append(dispatched,
                       [list |-> position.list, index |-> position.index,
                        executed |-> func_name # ""])
                /\ cursor' = cursor + 1
                /\ IF last_call'.raised # "none"
                   THEN \* the call is in no try block
                        pc' = "raised" /\ terminal' = "RAISED"
                   ELSE IF func_name # "" /\ ~last_call'.ok
                   THEN pc' = "returned" /\ terminal' = "ABORTED"
                   ELSE /\ pc' = IF cursor = Len(DispatchOrder(decision))
                                 THEN "status"
                                 ELSE "dispatch"
                        /\ terminal' = terminal
    /\ UNCHANGED << outside, vocab, subject, max_iterations, iteration, decision,
                    status_read, oracle_calls >>

\* a loop without the "if func_name:" test
DispatchExecutingNameless(entry, env) ==
    /\ pc = "dispatch"
    /\ entries_read' = entries_read + 1
    /\ IF ~IsDict(entry)
       THEN \* action.get raises AttributeError
            /\ pc' = "raised"
            /\ terminal' = "RAISED"
            /\ last_call' = NoCall
            /\ UNCHANGED << cursor, dispatched, current_accumulator,
                            current_source_url, missing_functions, missing_log >>
       ELSE LET func_name == Get(entry, "function", "")
                params == Get(entry, "params", EmptyDict)
                position == DispatchOrder(decision)[cursor]
            IN  /\ Executed(func_name, params, env)
                /\ dispatched' = Append(dispatched,
                       [list |-> position.list, index |-> position.index,
                        executed |-> TRUE])
                /\ cursor' = cursor + 1
                /\ IF last_call'.raised # "none"
                   THEN \* the call is in no try block
                        pc' = "raised" /\ terminal' = "RAISED"
                   ELSE /\ pc' = IF cursor = Len(DispatchOrder(decision))
                                 THEN "status"
                                 ELSE "dispatch"
                        /\ terminal' = terminal
    /\ UNCHANGED << outside, vocab, subject, max_iterations, iteration, decision,
                    status_read, oracle_calls >>

\* the body of "for action in actions" / "for step in next_steps"
Dispatch(entry, env) ==
    /\ pc = "dispatch"
    /\ entries_read' = entries_read + 1
    /\ IF ~IsDict(entry)
       THEN \* action.get raises AttributeError
            /\ pc' = "raised"
            /\ terminal' = "RAISED"
            /\ last_call' = NoCall
            /\ UNCHANGED << cursor, dispatched, current_accumulator,
                            current_source_url, missing_functions, missing_log >>
       ELSE LET func_name == Get(entry, "function", "")
                params == Get(entry, "params", EmptyDict)
                position == DispatchOrder(decision)[cursor]
            IN  /\ IF func_name # ""
                   THEN Executed(func_name, params, env)
                   ELSE /\ last_call' = NoCall
                        /\ UNCHANGED << current_accumulator, current_source_url,
                                        missing_functions, missing_log >>
                /\ dispatched' = Append(dispatched,
                       [list |-> position.list, index |-> position.index,
                        executed |-> func_name # ""])
                /\ cursor' = cursor + 1
                /\ IF last_call'.raised # "none"
                   THEN \* the call is in no try block
                        pc' = "raised" /\ terminal' = "RAISED"
                   ELSE /\ pc' = IF cursor = Len(DispatchOrder(decision))
                                 THEN "status"
                                 ELSE "dispatch"
                        /\ terminal' = terminal
    /\ UNCHANGED << outside, vocab, subject, max_iterations, iteration, decision,
                    status_read, oracle_calls >>

\* a status check that never breaks
CheckStatusNoBreak(fields) ==
    /\ pc = "status"
    /\ status_read' = Get(fields, "status", "continue")
    /\ pc' = "loop"
    /\ terminal' = terminal
    /\ last_call' = NoCall
    /\ UNCHANGED << outside, vocab, subject, max_iterations, iteration, decision, cursor,
                    entries_read, current_accumulator, current_source_url,
                    missing_functions, missing_log, dispatched, oracle_calls >>

\* a check that goes on only when told to continue
CheckStatusLenient(fields) ==
    /\ pc = "status"
    /\ status_read' = Get(fields, "status", "continue")
    /\ IF status_read' # "continue"
       THEN pc' = "returned" /\ terminal' = "COMPLETE"
       ELSE pc' = "loop" /\ terminal' = terminal
    /\ last_call' = NoCall
    /\ UNCHANGED << outside, vocab, subject, max_iterations, iteration, decision, cursor,
                    entries_read, current_accumulator, current_source_url,
                    missing_functions, missing_log, dispatched, oracle_calls >>

\* status = decision.get("status", "continue"); break if it is "complete"
CheckStatus(fields) ==
    /\ pc = "status"
    /\ status_read' = Get(fields, "status", "continue")
    /\ IF status_read' = "complete"
       THEN pc' = "returned" /\ terminal' = "COMPLETE"
       ELSE pc' = "loop" /\ terminal' = terminal
    /\ last_call' = NoCall
    /\ UNCHANGED << outside, vocab, subject, max_iterations, iteration, decision, cursor,
                    entries_read, current_accumulator, current_source_url,
                    missing_functions, missing_log, dispatched, oracle_calls >>

\* a caller of orchestrator.registry.execute before any research_company
\* call, as the test runner does
DirectExecute(entry, env) ==
    /\ pc = "idle"
    /\ entries_read < MaxEntries
    /\ IsDict(entry)
    /\ "function" \in DOMAIN entry
    /\ entries_read' = entries_read + 1
    /\ Executed(entry.function, Get(entry, "params", EmptyDict), env)
    /\ UNCHANGED << outside, vocab, pc, subject, max_iterations, iteration, decision,
                    cursor, dispatched, status_read, oracle_calls, terminal >>

\* the entry of a company whose research and report went through; the
\* counts copied into it from the returned data (iterations, contacts_found,
\* pain_points_found, images_collected) are left out: the batch reads none
Succeeded(company, accumulated_data) ==
    [ company |-> Get(company, "Title", Str(<<"U">>)),
      success |-> TRUE ]

\* the entry the except clause appends
Failed(company, error) ==
    [ company |-> Get(company, "Title", Str(<<"U">>)),
      success |-> FALSE,
      error |-> error ]

\* generate_final_report: sanitize_filename(company_name) is a re.sub, which
\* raises TypeError when the name is no str; the rest renders the data
generate_final_report(company_name, accumulated_data) ==
    IF IsStr(company_name) THEN "none" ELSE "TypeError"

\* the body of the batch loop after research_company: what is appended to
\* results when the research ended with outcome (returned or raised)
ResultEntryHidingFailure(company, outcome, accumulated_data) ==
    Succeeded(company, accumulated_data)

ResultEntry(company, outcome, accumulated_data) ==
    LET company_name == Get(company, "Title", Str(<<"U">>))
        report == generate_final_report(company_name, accumulated_data)
    IN  IF outcome = "raised"
        THEN Failed(company, "AttributeError")
        ELSE IF report # "none"
        THEN Failed(company, report)
        ELSE Succeeded(company, accumulated_data)

\* the rest of the try block and the except clause of run_batch_research
RecordResult ==
    /\ pc \in {"returned", "raised"}
    /\ Len(results) < subject
    /\ results' = Append(results,
          ResultEntry(Company(subject), pc, get_context(current_accumulator)))
    /\ last_call' = NoCall
    /\ UNCHANGED << vocab, pc, subject, max_iterations, iteration, decision,
                    cursor, entries_read, current_accumulator, current_source_url,
                    missing_functions, missing_log, dispatched, status_read,
                    oracle_calls, terminal, summary, test_accumulator >>

\* the end of run_batch_research, after the last company
SaveSummary ==
    /\ Idle
    /\ subject = MaxSubjects
    /\ Len(results) = subject
    /\ summary = PyNone
    /\ summary' =
          [ total_processed |-> Len(results),
            successful |-> Cardinality({i \in 1..Len(results) : results[i].success}),
            results |-> results ]
    /\ last_call' = NoCall
    /\ UNCHANGED << vocab, pc, subject, max_iterations, iteration, decision,
                    cursor, entries_read, current_accumulator, current_source_url,
                    missing_functions, missing_log, dispatched, status_read,
                    oracle_calls, terminal, results, test_accumulator >>

\* a DataAccumulator of its own, filled through its add_ methods as the
\* test runner does (the positional arguments are name, title, email; ...);
\* it shares nothing with the orchestrator, and the model runs it last
TestDataAccumulator ==
    /\ summary # PyNone
    /\ test_accumulator = PyNone
    /\ test_accumulator' =
          LET test_company == [Title |-> Text, WebsiteURL |-> U1]
              a1 == DataAccumulator(test_company)
              a2 == add_contact(a1, Jane, Text, Mail, EmptyStr, EmptyStr, EmptyStr)
              a3 == add_pain_point(a2, Text, Text, Text, EmptyStr)
              a4 == add_technology(a3, Text, Text, Text, EmptyStr)
              a5 == add_news(a4, Text, Text, U2, Text)
              a6 == add_source(a5, U1, "homepage")
          IN  increment_iteration(a6)
    /\ last_call' = NoCall
    /\ UNCHANGED << vocab, pc, subject, max_iterations, iteration, decision,
                    cursor, entries_read, current_accumulator, current_source_url,
                    missing_functions, missing_log, dispatched, status_read,
                    oracle_calls, terminal, results, summary >>

\* a new process over the same output directory, started before any
\* company is researched: IterativeResearchOrchestrator.__init__ with
\* FunctionRegistry.__init__ and _load_missing_log.  loaded says whether
\* open and json.load went through; a JSONDecodeError or IOError is caught
\* and leaves the in-memory mapping empty
Startup(loaded) ==
    /\ pc = "idle"
    /\ missing_functions' =
          IF missing_log # PyNone /\ loaded THEN missing_log ELSE EmptyDict
    /\ current_accumulator' = PyNone
    /\ current_source_url' = EmptyStr
    /\ last_call' = NoCall
    /\ UNCHANGED << outside, vocab, pc, subject, max_iterations, iteration, decision,
                    cursor, entries_read, missing_log, dispatched, status_read,
                    oracle_calls, terminal >>

Environments == [scraped : BOOLEAN, written : BOOLEAN]

Next ==
    \/ ResearchCompany
    \/ OracleFails
    \/ \E d \in Decisions(MaxEntries - entries_read) : OracleDecides(d)
    \/ RangeExhausted
    \/ \E entry \in vocab, env \in Environments : Dispatch(entry, env)
    \/ \E fields \in StatusFields : CheckStatus(fields)
    \/ \E entry \in vocab \cup {TestContact}, env \in Environments :
          DirectExecute(entry, env)
    \/ \E loaded \in BOOLEAN : Startup(loaded)
    \/ RecordResult
    \/ SaveSummary
    \/ TestDataAccumulator

Spec == Init /\ [][Next]_vars

\* The batch is one thread that runs to its end: a research_company call
\* that has started goes on step by step, and the batch loop goes on to the
\* next company and to the summary.
LoopStep ==
    \/ OracleFails
    \/ \E d \in Decisions(MaxEntries - entries_read) : OracleDecides(d)
    \/ RangeExhausted
    \/ \E entry \in vocab, env \in Environments : Dispatch(entry, env)
    \/ \E fields \in StatusFields : CheckStatus(fields)

BatchStep == ResearchCompany \/ RecordResult \/ SaveSummary

FairSpec == Spec /\ WF_vars(LoopStep) /\ WF_vars(BatchStep)

(***************************************************************************)
(* A DataAccumulator on its own, as test_data_accumulator uses it: any     *)
(* sequence of at most MaxAdds calls of its methods.  The orchestrator     *)
(* takes no step.                                                          *)
(***************************************************************************)
MaxAdds == 3

Locators == {EmptyStr, U1, U2}

\* image metadata as WebsiteExplorer collects it
Images == { <<>>, <<[url |-> U1]>>, <<[url |-> U1], [url |-> U2]>> }

\* the number of method calls that have left a mark on the accumulator
StoreSize(acc) ==
    Len(acc.data.contacts) + Len(acc.data.pain_points) + Len(acc.data.tech_stack)
    + Len(acc.data.news) + Len(acc.data.sources_explored) + acc.data.iterations
    + (IF acc.data.images = <<>> THEN 0 ELSE 1)

StoreInit ==
    /\ vocab = {}
    /\ pc = "idle"
    /\ subject = 0
    /\ max_iterations = 0
    /\ iteration = 0
    /\ decision = NoDecision
    /\ cursor = 0
    /\ entries_read = 0
    /\ current_accumulator = PyNone
    /\ current_source_url = EmptyStr
    /\ missing_log = PyNone
    /\ missing_functions = EmptyDict
    /\ dispatched = <<>>
    /\ last_call = NoCall
    /\ status_read = "unread"
    /\ oracle_calls = 0
    /\ terminal = "none"
    /\ results = <<>>
    /\ summary = PyNone
    /\ test_accumulator = DataAccumulator([Title |-> Text, WebsiteURL |-> U1])

\* one method call on the accumulator
StoreCall(after) ==
    /\ StoreSize(test_accumulator) < MaxAdds
    /\ test_accumulator' = after
    /\ UNCHANGED << vocab, pc, subject, max_iterations, iteration, decision,
                    cursor, entries_read, current_accumulator, current_source_url,
                    missing_functions, missing_log, dispatched, last_call,
                    status_read, oracle_calls, terminal, results, summary >>

AddContact(source_url) ==
    StoreCall(add_contact(test_accumulator, Jane, Text, Mail, EmptyStr, Text,
                          source_url))

AddPainPoint(source_url) ==
    StoreCall(add_pain_point(test_accumulator, Text, Text, Text, source_url))

AddTechnology(source_url) ==
    StoreCall(add_technology(test_accumulator, Text, Text, Text, source_url))

AddNews(url) == StoreCall(add_news(test_accumulator, Text, Text, url, Text))

AddImages(images) ==
    /\ test_accumulator.data.images = <<>>
    /\ StoreCall(add_images(test_accumulator, images))

AddSource(source) == StoreCall(add_source(test_accumulator, source, "webpage"))

IncrementIteration == StoreCall(increment_iteration(test_accumulator))

StoreNext ==
    \/ \E source_url \in Locators : AddContact(source_url)
    \/ \E source_url \in Locators : AddPainPoint(source_url)
    \/ \E source_url \in Locators : AddTechnology(source_url)
    \/ \E url \in Locators : AddNews(url)
    \/ \E images \in Images : AddImages(images)
    \/ \E source \in Locators \ {EmptyStr} : AddSource(source)
    \/ IncrementIteration

StoreSpec == StoreInit /\ [][StoreNext]_vars

(***************************************************************************)
(* Vocabulary of the properties.                                           *)
(***************************************************************************)
HasAccumulator == current_accumulator # PyNone

\* the step made a registry.execute call (last_call is NoCall after any
\* step that made none)
Called == last_call' # NoCall

\* the step belongs to one subject's research with its fact store in place
SameSubject ==
    /\ current_accumulator # PyNone
    /\ current_accumulator' # PyNone
    /\ subject' = subject

FactCategories == {"contacts", "pain_points", "tech_stack"}

IsPrefix(old, new) ==
    /\ Len(old) <= Len(new)
    /\ \A i \in 1..Len(old) : new[i] = old[i]

Appended(old, new) == {new[i] : i \in (Len(old) + 1)..Len(new)}

\* the fact records the step added, of any category
NewFacts ==
    UNION { Appended(current_accumulator.data[c], current_accumulator'.data[c]) :
              c \in FactCategories }

AllWhitespace(x) == \A i \in 1..Len(x.v) : x.v[i] \in Whitespace

\* y is x without its leading and trailing whitespace
IsTrimmed(x, y) ==
    \E i \in 1..(Len(x.v) + 1), j \in 0..Len(x.v) :
        /\ y.v = SubSeq(x.v, i, j)
        /\ \A m \in 1..(i - 1) : x.v[m] \in Whitespace
        /\ \A m \in (j + 1)..Len(x.v) : x.v[m] \in Whitespace
        /\ y.v # <<>> => (y.v[1] \notin Whitespace /\ y.v[Len(y.v)] \notin Whitespace)

SaveActions == {"save_contact", "save_pain_point", "extract_tech_stack"}

NoLocator(params) == ~Truthy(Get(params, "source_url", EmptyStr))

\* the pages explored successfully for the subject, oldest first
Explored(acc) ==
    SelectSeq(acc.data.sources_explored, LAMBDA src : src.type = "webpage")

(***************************************************************************)
(* C1.  When the decision of iteration k is the first with status          *)
(* "complete", research_company has made exactly k oracle calls, returns   *)
(* at once (it is never again in the loop for this subject), and the fact  *)
(* store it returns has iteration count k.                                 *)
(***************************************************************************)
C1_CompleteStopsLoop ==
    status_read = "complete" =>
        /\ pc = "returned"
        /\ terminal = "COMPLETE"
        /\ oracle_calls = iteration
        /\ get_context(current_accumulator).iterations = iteration

C1_Witness ==
    /\ status_read = "complete"
    /\ pc = "returned"
    /\ iteration = 1
    /\ iteration < max_iterations
    /\ Len(dispatched) = 2

(***************************************************************************)
(* C2.  When the oracle call of iteration i fails, the loop halts: nothing *)
(* of that iteration is dispatched, the fact store is returned with every  *)
(* fact, the ledger and the current locator as they were before the        *)
(* iteration, and its iteration count is i.                                *)
(***************************************************************************)
C2_OracleFailureHalts ==
    [][ terminal' = "ABORTED" =>
          /\ pc' = "returned"
          /\ dispatched' = <<>>
          /\ last_call' = NoCall
          /\ get_context(current_accumulator').iterations = iteration'
          /\ terminal = "running" =>
                /\ iteration' = iteration + 1
                /\ \A c \in FactCategories \cup {"sources_explored", "news", "images"} :
                      current_accumulator'.data[c] = current_accumulator.data[c]
                /\ current_accumulator'.citation_map = current_accumulator.citation_map
                /\ current_accumulator'.citation_counter =
                      current_accumulator.citation_counter
                /\ current_source_url' = current_source_url
                /\ missing_functions' = missing_functions ]_vars

C2_Witness ==
    /\ terminal = "ABORTED"
    /\ pc = "returned"
    /\ iteration = 2
    /\ Len(current_accumulator.data.contacts) > 0
    /\ current_accumulator.citation_counter > 0

(***************************************************************************)
(* C3.  Within one iteration the entries are handled one at a time in this *)
(* order: actions[1], ..., actions[n], then next_steps[1], ...,            *)
(* next_steps[m]; no next_steps entry is handled before every actions      *)
(* entry has been, and at the status check all of both lists have been.    *)
(* (An entry that names no function is passed over in its place.)          *)
(***************************************************************************)
C3_ActionsBeforeNextSteps ==
    /\ \A i \in 1..Len(dispatched) :
          IF dispatched[i].list = "actions"
          THEN dispatched[i].index = i /\ i <= decision.actions
          ELSE /\ dispatched[i].list = "next_steps"
               /\ i > decision.actions
               /\ dispatched[i].index = i - decision.actions
               /\ \A j \in 1..decision.actions : dispatched[j].list = "actions"
    /\ pc = "status" => Len(dispatched) = decision.actions + decision.next_steps

C3_Witness ==
    /\ pc = "status"
    /\ decision.actions = 2
    /\ decision.next_steps = 1
    /\ \A i \in 1..3 : dispatched[i].executed

(***************************************************************************)
(* C4.  A save_contact, save_pain_point or extract_tech_stack call without *)
(* a locator of its own, made after explore_page(X) last succeeded for the *)
(* subject, records its facts with source locator X and with the citation  *)
(* id the ledger holds for X; a pain point so saved is recorded.  This     *)
(* holds in the iteration of the exploration and in later ones.            *)
(***************************************************************************)
C4_InheritedLocator ==
    [][ ( /\ Called
          /\ SameSubject
          /\ last_call'.name \in SaveActions
          /\ NoLocator(last_call'.params)
          /\ Explored(current_accumulator) # <<>> )
        => LET pages == Explored(current_accumulator)
               X == pages[Len(pages)].source
               ledger == current_accumulator'.citation_map
           IN  /\ \A fact \in NewFacts :
                     /\ fact.source_url = X
                     /\ X \in DOMAIN ledger
                     /\ fact.citation = ledger[X]
               /\ (last_call'.name = "save_pain_point" /\ last_call'.ok)
                     => Cardinality(NewFacts) = 1 ]_vars

\* actions = [save_contact, explore_page(U2)], next_steps = [save_pain_point]
C4_Witness ==
    /\ HasAccumulator
    /\ pc = "status"
    /\ decision.actions = 2
    /\ decision.next_steps = 1
    /\ last_call.name = "save_pain_point"
    /\ NoLocator(last_call.params)
    /\ Len(current_accumulator.data.contacts) = 1
    /\ current_accumulator.data.contacts[1].citation = None
    /\ Len(Explored(current_accumulator)) = 1
    /\ Len(current_accumulator.data.pain_points) = 1
    /\ current_accumulator.data.pain_points[1].source_url = U2
    /\ current_accumulator.data.pain_points[1].citation = 1

\* the same across iterations: explored in iteration 1, saved in iteration 2
C4_WitnessLater ==
    /\ HasAccumulator
    /\ iteration = 2
    /\ Len(dispatched) = 1
    /\ last_call.name = "save_contact"
    /\ NoLocator(last_call.params)
    /\ Len(current_accumulator.data.contacts) = 1
    /\ current_accumulator.data.contacts[1].source_url = U1
    /\ current_accumulator.data.contacts[1].citation = 1

(***************************************************************************)
(* C5.  Within one subject's fact store a locator keeps the citation id it *)
(* was first given, whatever other locators are resolved in between; every *)
(* fact saved with a locator carries that id; and a step that resolves     *)
(* only locators already in the ledger leaves map and counter unchanged.   *)
(***************************************************************************)
C5_StableResolution ==
    [][ SameSubject =>
          LET old == current_accumulator.citation_map
              new == current_accumulator'.citation_map
          IN  /\ \A url \in DOMAIN old : url \in DOMAIN new /\ new[url] = old[url]
              /\ \A fact \in NewFacts :
                    Truthy(fact.source_url) =>
                        /\ fact.source_url \in DOMAIN new
                        /\ fact.citation = new[fact.source_url]
              /\ (\A fact \in NewFacts :
                      ~Truthy(fact.source_url) \/ fact.source_url \in DOMAIN old)
                    => /\ new = old
                       /\ current_accumulator'.citation_counter =
                             current_accumulator.citation_counter ]_vars

\* U1 resolved, then U2, then U1 again
C5_Witness ==
    /\ HasAccumulator
    /\ last_call.name = "save_pain_point"
    /\ Len(current_accumulator.data.pain_points) = 2
    /\ \A i \in 1..2 : /\ current_accumulator.data.pain_points[i].source_url = U1
                       /\ current_accumulator.data.pain_points[i].citation = 1
    /\ Len(current_accumulator.data.contacts) = 1
    /\ current_accumulator.data.contacts[1].source_url = U2
    /\ current_accumulator.data.contacts[1].citation = 2
    /\ current_accumulator.citation_counter = 2

(***************************************************************************)
(* C6.  In every state of a subject's ledger two different locators have   *)
(* different citation ids, so get_citations(), which inverts the map,      *)
(* keeps every locator.                                                    *)
(***************************************************************************)
C6_LedgerInjective ==
    HasAccumulator =>
        LET ledger == current_accumulator.citation_map
            footnotes == get_citations(current_accumulator)
        IN  /\ \A a, b \in DOMAIN ledger : a # b => ledger[a] # ledger[b]
            /\ Cardinality(DOMAIN footnotes) = Cardinality(DOMAIN ledger)
            /\ \A url \in DOMAIN ledger : footnotes[ledger[url]] = url

C6_Witness ==
    /\ HasAccumulator
    /\ Cardinality(DOMAIN current_accumulator.citation_map) = 2

(***************************************************************************)
(* C7.  A save_contact call whose name and email are both blank once       *)
(* trimmed changes neither the fact store nor the citation ledger,         *)
(* whatever phone, title, source and locator it carries and whatever the   *)
(* current locator is.                                                     *)
(***************************************************************************)
BlankField(params, key) ==
    LET x == Get(params, key, EmptyStr) IN IsStr(x) /\ AllWhitespace(x)

C7_BlankContactRejected ==
    [][ ( /\ Called
          /\ last_call'.name = "save_contact"
          /\ BlankField(last_call'.params, "name")
          /\ BlankField(last_call'.params, "email") )
        => /\ current_accumulator' = current_accumulator
           /\ current_source_url' = current_source_url ]_vars

\* a blank contact with a phone number and a locator, on a store with facts
C7_Witness ==
    /\ HasAccumulator
    /\ last_call.name = "save_contact"
    /\ last_call.ok
    /\ BlankField(last_call.params, "name")
    /\ BlankField(last_call.params, "email")
    /\ Truthy(Get(last_call.params, "phone", EmptyStr))
    /\ Truthy(Get(last_call.params, "source_url", EmptyStr))
    /\ Truthy(current_source_url)
    /\ Len(current_accumulator.data.contacts) = 1

(***************************************************************************)
(* C8.  During a subject's research, a save_contact call with a non-blank  *)
(* name and an empty email appends exactly one contact record holding the  *)
(* trimmed name.  Its citation id is the ledger id of the locator the call *)
(* supplies or, when it supplies none, of the current (inherited) source   *)
(* locator; it is None only when both are empty.                           *)
(***************************************************************************)
NamedContactCall ==
    /\ Called
    /\ SameSubject
    /\ last_call'.name = "save_contact"
    /\ Binds("save_contact", last_call'.params)
    /\ \A key \in DOMAIN last_call'.params : IsStr(last_call'.params[key])
    /\ ~AllWhitespace(last_call'.params["name"])
    /\ BlankField(last_call'.params, "email")

OneContactAdded(locator) ==
    LET before == current_accumulator.data.contacts
        after == current_accumulator'.data.contacts
        record == after[Len(after)]
        ledger == current_accumulator'.citation_map
    IN  /\ last_call'.ok
        /\ Len(after) = Len(before) + 1
        /\ IsPrefix(before, after)
        /\ \A c \in FactCategories \ {"contacts"} :
              current_accumulator'.data[c] = current_accumulator.data[c]
        /\ IsTrimmed(last_call'.params["name"], record.name)
        /\ record.email = EmptyStr
        /\ record.source_url = locator
        /\ IF Truthy(locator)
           THEN locator \in DOMAIN ledger /\ record.citation = ledger[locator]
           ELSE record.citation = None

\* as claimed: the citation comes from the supplied locator alone
C8_AsClaimed ==
    [][ NamedContactCall =>
          OneContactAdded(Get(last_call'.params, "source_url", EmptyStr)) ]_vars

C8_NamedContactSaved ==
    [][ NamedContactCall =>
          LET given == Get(last_call'.params, "source_url", EmptyStr)
          IN  OneContactAdded(IF Truthy(given) THEN given ELSE current_source_url) ]_vars

\* a named contact without a locator of its own, citing the explored page
C8_Witness ==
    /\ HasAccumulator
    /\ last_call.name = "save_contact"
    /\ last_call.ok
    /\ NoLocator(last_call.params)
    /\ Len(current_accumulator.data.contacts) = 1
    /\ current_accumulator.data.contacts[1].name = Str(<<"J">>)
    /\ current_accumulator.data.contacts[1].source_url = U1
    /\ current_accumulator.data.contacts[1].citation = 1

(***************************************************************************)
(* C9.  Every execute call on an unregistered name returns ok = false with *)
(* the "not implemented" message and raises the missing-action counter of  *)
(* that name by exactly 1, leaving every other counter as it was; so three *)
(* calls raise it from nothing to 3.                                       *)
(***************************************************************************)
C9_MissingCounted ==
    [][ (Called /\ ~has_function(last_call'.name)) =>
          /\ ~last_call'.ok
          /\ last_call'.result = "not implemented"
          /\ DOMAIN missing_functions' = DOMAIN missing_functions \cup {last_call'.name}
          /\ missing_functions'[last_call'.name] =
                Get(missing_functions, last_call'.name, 0) + 1
          /\ \A other \in DOMAIN missing_functions \ {last_call'.name} :
                missing_functions'[other] = missing_functions[other]
          /\ current_accumulator' = current_accumulator
          /\ current_source_url' = current_source_url ]_vars

C9_Witness ==
    /\ last_call.name = "analyze_sentiment"
    /\ ~last_call.ok
    /\ entries_read = 3
    /\ DOMAIN missing_functions = {"analyze_sentiment"}
    /\ missing_functions["analyze_sentiment"] = 3

(***************************************************************************)
(* C10.  The missing-action log is write-through: once an execute call on  *)
(* an unregistered name has returned, missing_functions.json holds what    *)
(* missing_functions holds, that call's increment included.                *)
(***************************************************************************)
C10_WriteThrough ==
    (last_call # NoCall /\ ~has_function(last_call.name)) =>
        missing_log = missing_functions

(***************************************************************************)
(* C11.  The persisted missing-action count of a name never decreases:     *)
(* whatever execute calls and registry start-ups happen over the same log  *)
(* file, every name the file holds stays in it, with a count at least as   *)
(* large as before.                                                        *)
(***************************************************************************)
C11_PersistedCountsGrow ==
    [][ missing_log # PyNone =>
          /\ missing_log' # PyNone
          /\ \A name \in DOMAIN missing_log :
                /\ name \in DOMAIN missing_log'
                /\ missing_log'[name] >= missing_log[name] ]_vars

(***************************************************************************)
(* C12.  execute never raises past its boundary: every call, for any       *)
(* action name, any params value (a mapping or not) and any fault of the   *)
(* handler or of the log write, returns a pair (ok, result or message),    *)
(* with ok true exactly when the handler returned.                         *)
(***************************************************************************)
Messages == {"not implemented", "parameter error", "failed"}

C12_WitnessNoMapping ==
    /\ last_call.name = "save_company_info"
    /\ ~IsDict(last_call.params)
    /\ last_call.result = "parameter error"

\* a log write that fails
C12_WitnessLogFault ==
    /\ last_call.result = "not implemented"
    /\ missing_functions # EmptyDict
    /\ missing_log = PyNone

(***************************************************************************)
(* C13.  A failed dispatch (unknown action, parameter error or handler     *)
(* fault) never halts the loop: the run stays in its iteration, the next   *)
(* entry of the decision is read if there is one, the status check is      *)
(* reached after the last, and a status other than "complete" leads to     *)
(* the next pass of the loop.                                              *)
(***************************************************************************)
C13_FailureDoesNotHalt ==
    [][ /\ (pc = "dispatch" /\ Called /\ ~last_call'.ok) =>
            /\ last_call'.result \in Messages
            /\ terminal' = "running"
            /\ iteration' = iteration
            /\ cursor' = cursor + 1
            /\ Len(dispatched') = Len(dispatched) + 1
            /\ pc' = IF cursor < decision.actions + decision.next_steps
                     THEN "dispatch"
                     ELSE "status"
        /\ (pc = "status" /\ status_read' # "complete") =>
            /\ pc' = "loop"
            /\ terminal' = "running" ]_vars

\* actions = [analyze_sentiment (unknown), save_company_info]: the second is
\* executed after the first has failed, and the status check is reached
C13_Witness ==
    /\ pc = "status"
    /\ terminal = "running"
    /\ entries_read = 2
    /\ Len(dispatched) = 2
    /\ missing_functions = [analyze_sentiment |-> 1]
    /\ last_call.name = "save_company_info"
    /\ last_call.ok

(***************************************************************************)
(* C14.  research_company never raises to its caller once the fact store   *)
(* is created: whatever the oracle does and whatever the decision holds    *)
(* (a decision that is no mapping, entries that are no mappings), the run  *)
(* ends in COMPLETE, BUDGET_EXHAUSTED or ABORTED and returns the store.    *)
(***************************************************************************)
C14_NeverRaises ==
    /\ pc # "raised"
    /\ terminal \in {"none", "running", "COMPLETE", "BUDGET_EXHAUSTED", "ABORTED"}

(***************************************************************************)
(* C15.  Subjects are isolated: when the research of a subject starts, its *)
(* fact store and citation ledger are empty and the inherited current      *)
(* source locator is empty, so nothing of an earlier subject can be cited. *)
(***************************************************************************)
C15_SubjectsIsolated ==
    [][ subject' # subject =>
          /\ \A c \in FactCategories \cup {"news", "images"} :
                current_accumulator'.data[c] = <<>>
          /\ current_accumulator'.citation_map = EmptyDict
          /\ current_accumulator'.citation_counter = 0
          /\ current_source_url' = EmptyStr ]_vars

\* what the leak leads to: the second subject has explored no page, and its
\* contact, saved without a locator, cites a page explored before its
\* research started
C15_CrossSubjectCitation ==
    /\ subject = 2
    /\ HasAccumulator
    /\ Explored(current_accumulator) = <<>>
    /\ Len(current_accumulator.data.contacts) = 1
    /\ NoLocator(last_call.params)
    /\ last_call.name = "save_contact"
    /\ current_accumulator.data.contacts[1].source_url = U2
    /\ current_accumulator.data.contacts[1].citation = 1

(***************************************************************************)
(* C16.  Batch run: the companies are processed one at a time, in input    *)
(* order; a company whose research or report generation raises is recorded *)
(* as a failed entry with the error and the companies after it are still   *)
(* processed; the summary is written in the end and holds exactly one      *)
(* entry per company.                                                      *)
(***************************************************************************)
Running == pc \in {"loop", "dispatch", "status"}

Title(i) == Get(Company(i), "Title", Str(<<"U">>))

C16_OneAtATime ==
    /\ Len(results) \in {subject - 1, subject}
    /\ Running => Len(results) = subject - 1
    /\ (~Running /\ Len(results) = subject /\ subject < MaxSubjects) =>
          ENABLED ResearchCompany
    /\ \A i \in 1..Len(results) :
          /\ results[i].company = Title(i)
          /\ results[i].success \/ "error" \in DOMAIN results[i]
    /\ summary # PyNone =>
          /\ summary.results = results
          /\ Len(results) = MaxSubjects
          /\ summary.total_processed = MaxSubjects
          /\ summary.successful =
                Cardinality({i \in 1..MaxSubjects : results[i].success})

C16_FailureRecorded ==
    Len(results') = Len(results) + 1 =>
        LET entry == results'[Len(results')]
        IN  /\ IsPrefix(results, results')
            /\ pc = "raised" =>
                  ~entry.success /\ entry.error = "AttributeError"
            /\ (pc = "returned" /\ ~IsStr(Title(subject))) =>
                  ~entry.success /\ entry.error = "TypeError"
            /\ (pc = "returned" /\ IsStr(Title(subject))) => entry.success

C16_WitnessRaised ==
    /\ Len(results) = 1
    /\ results[1].error = "AttributeError"
    /\ subject = 2
    /\ Running

(***************************************************************************)
(* C17.  In every reachable state, every fact record of every category     *)
(* that carries a non-empty source locator has a non-null citation id,     *)
(* and that id is the one the ledger of its store maps the locator to.     *)
(***************************************************************************)
\* the locator a fact record carries (a news item carries it as url)
LocatorOf(fact) ==
    IF "source_url" \in DOMAIN fact
    THEN fact.source_url
    ELSE Get(fact, "url", EmptyStr)

CitationOf(fact) == Get(fact, "citation", None)

Cited(acc, categories) ==
    \A c \in categories : \A i \in 1..Len(acc.data[c]) :
        LET fact == acc.data[c][i]
        IN  Truthy(LocatorOf(fact)) =>
                /\ CitationOf(fact) # None
                /\ LocatorOf(fact) \in DOMAIN acc.citation_map
                /\ CitationOf(fact) = acc.citation_map[LocatorOf(fact)]

\* C17: in every accumulator, every contact, pain point, technology and
\* news item stored with a non-empty locator carries a citation, and that
\* citation is the ledger's identifier for the locator
C17_LocatedFactsCited ==
    \A acc \in {current_accumulator, test_accumulator} \ {PyNone} :
        Cited(acc, FactCategories \cup {"news"})

\* C17 without the news: the same for contacts, pain points and
\* technologies alone, the categories written through Cite
C17_SavedFactsCited ==
    \A acc \in {current_accumulator, test_accumulator} \ {PyNone} :
        Cited(acc, FactCategories)

(***************************************************************************)
(* C18.  An add operation given an empty or absent locator stores the fact *)
(* with a null citation and creates no ledger entry: the ledger never maps *)
(* the empty locator to an id, and the counter is not advanced.            *)
(***************************************************************************)
\* every fact stored with an empty locator has citation None
Uncited(acc) ==
    \A c \in FactCategories : \A i \in 1..Len(acc.data[c]) :
        ~Truthy(acc.data[c][i].source_url) => acc.data[c][i].citation = None

\* the ledger has as many entries as the counter says, none of them for
\* an empty locator
NoSpuriousEntry(acc) ==
    /\ \A url \in DOMAIN acc.citation_map : Truthy(url)
    /\ Cardinality(DOMAIN acc.citation_map) = acc.citation_counter

\* C18: in every accumulator the facts stored with an empty locator have a
\* null citation and the ledger has no entry for an empty locator; a step
\* that adds facts, all of them with an empty locator, leaves the ledger
\* and its counter as they were
C18_EmptyLocatorUncited ==
    /\ [](\A acc \in {current_accumulator, test_accumulator} \ {PyNone} :
             Uncited(acc) /\ NoSpuriousEntry(acc))
    /\ [][ ( /\ SameSubject
             /\ NewFacts # {}
             /\ \A fact \in NewFacts : ~Truthy(fact.source_url) )
           => /\ current_accumulator'.citation_map =
                    current_accumulator.citation_map
              /\ current_accumulator'.citation_counter =
                    current_accumulator.citation_counter ]_vars

\* a contact saved with no locator at all after a pain point cited at U1
C18_Witness ==
    /\ HasAccumulator
    /\ last_call.name = "save_contact"
    /\ last_call.ok
    /\ NoLocator(last_call.params)
    /\ current_source_url = EmptyStr
    /\ Len(current_accumulator.data.contacts) = 1
    /\ current_accumulator.data.contacts[1].source_url = EmptyStr
    /\ current_accumulator.data.contacts[1].citation = None
    /\ Len(current_accumulator.data.pain_points) = 1
    /\ current_accumulator.data.pain_points[1].citation = 1
    /\ current_accumulator.citation_counter = 1

(***************************************************************************)
(* C19.  If the oracle never fails and never returns status "complete",    *)
(* the loop ends after exactly max_iterations iterations, in               *)
(* BUDGET_EXHAUSTED, and research_company returns the fact store with      *)
(* iteration count max_iterations.                                         *)
(***************************************************************************)
\* the ways a run ends other than by using up its range: the oracle
\* raised, it said "complete", or what it returned was no decision at all
EndedEarly == terminal \in {"ABORTED", "COMPLETE", "RAISED"}

\* C19: a run that ends in BUDGET_EXHAUSTED has made exactly max_iterations
\* passes and oracle calls and returns a store that counts as many; a
\* returned run ended in one of the three terminal states; and under fair
\* scheduling every subject's run that never ends early does end in
\* BUDGET_EXHAUSTED
C19_BudgetExhausted ==
    /\ [](terminal = "BUDGET_EXHAUSTED" =>
            /\ pc = "returned"
            /\ iteration = max_iterations
            /\ oracle_calls = max_iterations
            /\ get_context(current_accumulator).iterations = max_iterations
            /\ status_read # "complete")
    /\ [](pc = "returned" =>
            terminal \in {"ABORTED", "COMPLETE", "BUDGET_EXHAUSTED"})
    /\ \A s \in 1..MaxSubjects :
          [](subject = s => ~EndedEarly)
             => <>(subject = s /\ terminal = "BUDGET_EXHAUSTED")

\* the range used up with a decision handled in the last pass
C19_Witness ==
    /\ terminal = "BUDGET_EXHAUSTED"
    /\ pc = "returned"
    /\ iteration = max_iterations
    /\ max_iterations = MaxIterations
    /\ status_read = "continue"
    /\ Len(dispatched) > 0
    /\ get_context(current_accumulator).iterations = MaxIterations

(***************************************************************************)
(* C20.  A run ended by an oracle failure is marked ABORTED: what          *)
(* research_company hands back to its caller, and what the batch summary   *)
(* records for the subject, tells the terminal reason ABORTED from         *)
(* COMPLETE and from BUDGET_EXHAUSTED.                                     *)
(***************************************************************************)
\* what research_company returns for the company when the oracle raises in
\* the first pass
AbortedAtOnce(company) ==
    LET accumulator == DataAccumulator(company)
        website == Get(company, "WebsiteURL", EmptyStr)
        started == IF Truthy(website)
                   THEN add_source(accumulator, website, "homepage")
                   ELSE accumulator
    IN  get_context(increment_iteration(started))

\* C20: no run that ended in COMPLETE or BUDGET_EXHAUSTED returns the very
\* value a run of the same subject aborted in its first pass returns
C20_AbortedDistinguished ==
    (pc = "returned" /\ terminal \in {"COMPLETE", "BUDGET_EXHAUSTED"})
        => get_context(current_accumulator) # AbortedAtOnce(Company(subject))

\* the aborted run the formula compares with
C20_AbortedAtOnce ==
    /\ pc = "returned"
    /\ terminal = "ABORTED"
    /\ iteration = 1
    /\ get_context(current_accumulator) = AbortedAtOnce(Company(subject))

(***************************************************************************)
(* C21.  A save_contact action that supplies a non-empty email and no name *)
(* parameter at all is accepted: execute returns ok and exactly one        *)
(* contact record with that email is appended.                             *)
(***************************************************************************)
\* the call of the step is save_contact with an email and no name key
MailOnlyCall ==
    /\ Called
    /\ last_call'.name = "save_contact"
    /\ IsDict(last_call'.params)
    /\ "name" \notin DOMAIN last_call'.params
    /\ "email" \in DOMAIN last_call'.params
    /\ IsStr(last_call'.params.email)
    /\ Truthy(strip(last_call'.params.email))

\* C21: a save_contact call with a non-empty email and no name key returns
\* ok, and during a subject's research it appends exactly one contact
\* record, which carries that email
C21_MailOnlyAccepted ==
    [][ MailOnlyCall =>
          /\ last_call'.ok
          /\ SameSubject =>
                /\ Len(current_accumulator'.data.contacts) =
                      Len(current_accumulator.data.contacts) + 1
                /\ \A fact \in NewFacts :
                      fact.email = strip(last_call'.params.email) ]_vars

\* what the code does with such a call during a subject's research
C21_MailOnlyRefused ==
    /\ HasAccumulator
    /\ pc = "dispatch"
    /\ last_call.name = "save_contact"
    /\ "name" \notin DOMAIN last_call.params
    /\ Truthy(strip(last_call.params.email))
    /\ ~last_call.ok
    /\ last_call.result = "parameter error"
    /\ current_accumulator.data.contacts = <<>>

(***************************************************************************)
(* C22.  execute of a registered handler whose parameters match its        *)
(* signature and whose body does not fault returns (true, handler_result); *)
(* in particular save_contact with a non-empty name and email returns      *)
(* ok = true in every orchestrator state, including before any subject's   *)
(* research has started.                                                   *)
(***************************************************************************)
\* the step called a registered handler with parameters its def line binds
BoundCall ==
    /\ Called
    /\ has_function(last_call'.name)
    /\ IsDict(last_call'.params)
    /\ Binds(last_call'.name, last_call'.params)

\* the call of the step is save_contact with a name and an email that are
\* not blank and with nothing but strings for its other parameters
FullContactCall ==
    /\ BoundCall
    /\ last_call'.name = "save_contact"
    /\ "email" \in DOMAIN last_call'.params
    /\ \A key \in DOMAIN last_call'.params \ {"source_url"} :
          IsStr(last_call'.params[key])
    /\ Truthy(strip(last_call'.params.name))
    /\ Truthy(strip(last_call'.params.email))

\* C22: a call that binds and whose handler body raises nothing returns
\* (True, None), the handler's return value; a save_contact call with a
\* non-empty name and email does so whether or not a subject's research has
\* started, and before any research it changes nothing
C22_RegisteredCallSucceeds ==
    [][ /\ ( /\ BoundCall
             /\ \A env \in Environments :
                   Call(last_call'.name, Self, last_call'.params, env).raised
                      = "none" )
           => /\ last_call'.ok
              /\ last_call'.result = "None"
              /\ last_call'.raised = "none"
        /\ FullContactCall
           => /\ last_call'.ok
              /\ last_call'.result = "None"
              /\ current_accumulator = PyNone
                    => current_accumulator' = PyNone ]_vars

\* the test's call on an orchestrator that has researched nothing yet
C22_Witness ==
    /\ pc = "idle"
    /\ subject = 0
    /\ current_accumulator = PyNone
    /\ last_call.name = "save_contact"
    /\ last_call.params = TestContact.params
    /\ last_call.ok
    /\ last_call.result = "None"

(***************************************************************************)
(* C23.  Citation ids are assigned sequentially from 1 in first-seen       *)
(* order: the set of assigned ids is exactly 1..n, where n is the number   *)
(* of distinct non-empty locators seen, the ledger counter equals n, and   *)
(* the k-th distinct locator seen has id k.                                *)
(***************************************************************************)
\* the non-empty locators of the facts the add operations have stored
LocatorsSeen(acc) ==
    UNION { { acc.data[c][i].source_url : i \in 1..Len(acc.data[c]) } :
              c \in FactCategories }
    \ { EmptyStr, PyNone }

\* the ids in use are 1..n for the n locators seen, and the counter is n
Sequential(acc) ==
    LET ledger == acc.citation_map
        n == Cardinality(LocatorsSeen(acc))
    IN  /\ DOMAIN ledger = LocatorsSeen(acc)
        /\ {ledger[url] : url \in DOMAIN ledger} = 1..n
        /\ acc.citation_counter = n

\* C23: in every accumulator the ledger maps exactly the locators seen onto
\* 1..n and its counter is n; a subject's ledger starts empty, and a step
\* that meets a new locator gives it the id n + 1 and keeps the earlier ids
C23_SequentialIds ==
    /\ [](\A acc \in {current_accumulator, test_accumulator} \ {PyNone} :
             Sequential(acc))
    /\ [][ /\ (current_accumulator' # PyNone /\ subject' # subject)
              => /\ current_accumulator'.citation_map = EmptyDict
                 /\ current_accumulator'.citation_counter = 0
           /\ SameSubject
              => LET old == current_accumulator.citation_map
                     new == current_accumulator'.citation_map
                 IN  /\ Cardinality(DOMAIN new \ DOMAIN old) <= 1
                     /\ \A url \in DOMAIN old :
                           url \in DOMAIN new /\ new[url] = old[url]
                     /\ \A url \in DOMAIN new \ DOMAIN old :
                           new[url] = current_accumulator.citation_counter + 1
         ]_vars

\* U2 seen first and U1 second
C23_Witness ==
    /\ HasAccumulator
    /\ Len(current_accumulator.data.contacts) = 1
    /\ current_accumulator.data.contacts[1].source_url = U2
    /\ Len(current_accumulator.data.pain_points) = 1
    /\ current_accumulator.data.pain_points[1].source_url = U1
    /\ current_accumulator.citation_map = (U2 :> 1) @@ (U1 :> 2)
    /\ current_accumulator.citation_counter = 2

(***************************************************************************)
(* C24.  In every state of a subject's run the iteration count of the fact *)
(* store equals the number of oracle calls started for the subject: it     *)
(* starts at 0, goes up by exactly one per loop pass, before the oracle    *)
(* call, is changed by no action handler, never decreases and never        *)
(* exceeds max_iterations.                                                 *)
(***************************************************************************)
IterationCount(acc) == get_context(acc).iterations

\* C24: the stored iteration count equals the oracle calls made for the
\* subject and the loop variable, and is at most max_iterations; it is 0
\* when the research starts; a step of the run leaves it alone or adds one,
\* and adds one exactly when it makes an oracle call; a step that calls a
\* handler leaves it alone; the test's single increment_iteration gives 1
C24_CountsOracleCalls ==
    /\ [](HasAccumulator =>
            /\ IterationCount(current_accumulator) = oracle_calls
            /\ IterationCount(current_accumulator) = iteration
            /\ IterationCount(current_accumulator) <= max_iterations)
    /\ [](test_accumulator # PyNone => IterationCount(test_accumulator) = 1)
    /\ [][ /\ (current_accumulator' # PyNone /\ subject' # subject)
              => IterationCount(current_accumulator') = 0 /\ oracle_calls' = 0
           /\ SameSubject
              => /\ IterationCount(current_accumulator') \in
                       { IterationCount(current_accumulator),
                         IterationCount(current_accumulator) + 1 }
                 /\ IterationCount(current_accumulator') =
                       IterationCount(current_accumulator) + 1
                       <=> oracle_calls' = oracle_calls + 1
                 /\ Called => IterationCount(current_accumulator') =
                                 IterationCount(current_accumulator)
         ]_vars

\* the second pass, after a handler has stored a fact in it
C24_Witness ==
    /\ HasAccumulator
    /\ pc \in {"dispatch", "status"}
    /\ last_call.ok
    /\ oracle_calls = 2
    /\ IterationCount(current_accumulator) = 2
    /\ Len(dispatched) > 0
    /\ Len(current_accumulator.data.contacts) > 0

(***************************************************************************)
(* C25.  Fact collections are append-only: for every step of any run (any  *)
(* add operation, any dispatched action, any oracle call) each category's  *)
(* collection before the step is a prefix of the collection after it; no   *)
(* operation edits, reorders or removes an existing fact record, and each  *)
(* successful add appends exactly one record to exactly one category.      *)
(***************************************************************************)
Categories == FactCategories \cup {"news", "images", "sources_explored"}

\* every collection of old is a prefix of the same collection of new
Extends(old, new) ==
    \A c \in Categories : IsPrefix(old.data[c], new.data[c])

\* the number of records over all categories
Records(acc) ==
    Len(acc.data.contacts) + Len(acc.data.pain_points) + Len(acc.data.tech_stack)
    + Len(acc.data.news) + Len(acc.data.images) + Len(acc.data.sources_explored)

\* C25, the part about the steps of a run and of any sequence of method
\* calls: each collection before a step is a prefix of it after the step
C25_AppendOnly ==
    [][ /\ SameSubject => Extends(current_accumulator, current_accumulator')
        /\ (test_accumulator # PyNone /\ test_accumulator' # PyNone)
              => Extends(test_accumulator, test_accumulator') ]_vars

\* C25: a method call on the accumulator extends every collection, and an
\* add method appends exactly one record
C25_OneRecordPerAdd ==
    [][ /\ Extends(test_accumulator, test_accumulator')
        /\ IterationCount(test_accumulator') = IterationCount(test_accumulator)
              => Records(test_accumulator') = Records(test_accumulator) + 1
      ]_vars

\* the same without add_images
C25_OneRecordPerOtherAdd ==
    [][ ( /\ IterationCount(test_accumulator') = IterationCount(test_accumulator)
          /\ test_accumulator'.data.images = test_accumulator.data.images )
        => Records(test_accumulator') = Records(test_accumulator) + 1 ]_vars

\* one add_images call has appended two records
C25_TwoImagesAdded ==
    /\ test_accumulator # PyNone
    /\ Len(test_accumulator.data.images) = 2
    /\ StoreSize(test_accumulator) = 1

(***************************************************************************)
(* C26.  In the iteration whose decision has status "complete", every      *)
(* action and every follow-up action of that decision is dispatched before *)
(* the loop stops: the status is examined only after both lists have been  *)
(* dispatched.                                                             *)
(***************************************************************************)
\* every position of the decision has been handled, in the loop's order
AllDispatched ==
    /\ Len(dispatched) = decision.actions + decision.next_steps
    /\ \A i \in 1..Len(dispatched) :
          /\ dispatched[i].list = DispatchOrder(decision)[i].list
          /\ dispatched[i].index = DispatchOrder(decision)[i].index

\* C26: the step that reads the status is taken with every action and every
\* follow-up of the decision handled and handles none itself, and a run
\* that ended in COMPLETE has handled them all
C26_DispatchedBeforeComplete ==
    /\ [](terminal = "COMPLETE" => status_read = "complete" /\ AllDispatched)
    /\ [][ (status_read' # "unread" /\ status_read = "unread")
             => /\ AllDispatched
                /\ dispatched' = dispatched
                /\ decision' = decision
                /\ ~Called
                /\ current_accumulator' = current_accumulator ]_vars

\* one action and two follow-ups executed, then "complete"
C26_Witness ==
    /\ terminal = "COMPLETE"
    /\ iteration = 1
    /\ decision.actions = 1
    /\ decision.next_steps = 2
    /\ \A i \in 1..3 : dispatched[i].executed
    /\ Len(current_accumulator.data.contacts) > 0

(***************************************************************************)
(* C27.  A decision whose status is absent, or is any value other than     *)
(* exactly "complete", is treated as "continue": the loop goes on to the   *)
(* next iteration whenever budget remains, so only an oracle failure, a    *)
(* "complete" status or budget exhaustion ends a run.                      *)
(***************************************************************************)
\* the step ends the running research_company call
RunEnds == terminal = "running" /\ terminal' # "running"

\* C27: a status read as anything but "complete" sends the loop back to its
\* head with the run still going; at the head of the loop with budget left
\* the next step is a new pass; and a run ends only in the pass whose oracle
\* call failed, at a status read as "complete", at the head of the loop with
\* the budget used up, or on a payload that is no decision at all
C27_OtherStatusContinues ==
    [][ /\ (status_read = "unread" /\ status_read' \notin {"unread", "complete"})
           => /\ pc' = "loop"
              /\ terminal' = "running"
              /\ iteration' = iteration
        /\ (pc = "loop" /\ iteration < max_iterations)
           => /\ iteration' = iteration + 1
              /\ oracle_calls' = oracle_calls + 1
              /\ terminal' # "BUDGET_EXHAUSTED"
        /\ RunEnds
           => \/ /\ terminal' = "ABORTED"
                 /\ pc = "loop"
                 /\ oracle_calls' = oracle_calls + 1
              \/ /\ terminal' = "COMPLETE"
                 /\ pc = "status"
                 /\ status_read' = "complete"
              \/ /\ terminal' = "BUDGET_EXHAUSTED"
                 /\ pc = "loop"
                 /\ iteration = max_iterations
              \/ /\ terminal' = "RAISED"
                 /\ NotADict \in vocab
                 /\ ~Called ]_vars

\* back at the head of the loop after a status of "Complete"
C27_Witness ==
    /\ pc = "loop"
    /\ terminal = "running"
    /\ status_read = "Complete"
    /\ iteration = 1
    /\ iteration < max_iterations
    /\ Len(dispatched) > 0

\* and after a decision with no status key, read as the default
C27_WitnessDefault ==
    /\ pc = "loop"
    /\ terminal = "running"
    /\ status_read = "continue"
    /\ iteration = 1

(***************************************************************************)
(* C28.  The current source locator changes only when an explore_page      *)
(* action succeeds, and then becomes the explored URL (the last successful *)
(* exploration wins); a failed exploration, any save action with or        *)
(* without a locator of its own, an unknown action, the initial homepage   *)
(* registration and an oracle call all leave it unchanged.                 *)
(***************************************************************************)
\* the step is an explore_page call that bound its url
ExploreCall ==
    /\ Called
    /\ last_call'.name = "explore_page"
    /\ last_call'.ok

\* the explore_page call of the step recorded a page for the subject
PageRecorded ==
    /\ ExploreCall
    /\ SameSubject
    /\ Len(current_accumulator'.data.sources_explored) =
          Len(current_accumulator.data.sources_explored) + 1

\* a new orchestrator object is constructed (current_source_url = "")
Constructed == pc = "idle" /\ ~Called /\ current_accumulator' = PyNone

\* C28: within one orchestrator the locator changes only in an explore_page
\* call, and then to the url of the call; a successful exploration leaves
\* the locator at its url; an exploration that recorded no page for the
\* running subject, every other call and every step without a call (the
\* start of a research with its homepage, an oracle call, a status check)
\* leave the locator as it was
C28_LocatorFollowsExploration ==
    [][ /\ (current_source_url' # current_source_url /\ ~Constructed)
           => /\ ExploreCall
              /\ current_source_url' = last_call'.params.url
        /\ PageRecorded => current_source_url' = last_call'.params.url
        /\ (ExploreCall /\ SameSubject /\ ~PageRecorded)
           => current_source_url' = current_source_url
        /\ (Called /\ last_call'.name # "explore_page")
           => current_source_url' = current_source_url
        /\ (~Called /\ ~Constructed)
           => current_source_url' = current_source_url ]_vars

\* U1 explored, then an exploration of U2 that failed
C28_Witness ==
    /\ HasAccumulator
    /\ last_call.name = "explore_page"
    /\ last_call.ok
    /\ last_call.params.url = U2
    /\ Len(Explored(current_accumulator)) = 1
    /\ Explored(current_accumulator)[1].source = U1
    /\ current_source_url = U1

\* U1 explored, then U2: the last one wins
C28_WitnessLastWins ==
    /\ HasAccumulator
    /\ last_call.name = "explore_page"
    /\ Len(Explored(current_accumulator)) = 2
    /\ Explored(current_accumulator)[1].source = U1
    /\ Explored(current_accumulator)[2].source = U2
    /\ current_source_url = U2

\* a research with a homepage has started and the locator is still empty
C28_WitnessHomepage ==
    /\ HasAccumulator
    /\ pc = "loop"
    /\ iteration = 0
    /\ Len(current_accumulator.data.sources_explored) = 1
    /\ current_source_url = EmptyStr

(***************************************************************************)
(* C29.  execute reports "parameter error" exactly when the call failed    *)
(* because the supplied parameters do not match the handler's signature    *)
(* (wrong, missing or extra arguments); every other fault raised while the *)
(* handler runs, a fault raised inside the handler body included, is       *)
(* reported as "failed".                                                   *)
(***************************************************************************)
\* the parameters of the call of the step do not bind to the handler
Mismatch ==
    \/ ~IsDict(last_call'.params)
    \/ ~Binds(last_call'.name, last_call'.params)

\* C29: a call of a registered handler that failed is reported as
\* "parameter error" if and only if its parameters do not bind to the
\* handler's signature, and as "failed" otherwise
C29_ParameterErrorExact ==
    [][ (Called /\ has_function(last_call'.name) /\ ~last_call'.ok)
          => /\ last_call'.result = "parameter error" <=> Mismatch
             /\ last_call'.result = "failed" <=> ~Mismatch ]_vars

\* a fault in the body of save_pain_point reported as a parameter error,
\* with the pain point stored
C29_BodyFaultMisreported ==
    /\ HasAccumulator
    /\ last_call.name = "save_pain_point"
    /\ Binds(last_call.name, last_call.params)
    /\ last_call.params.description = PyNone
    /\ ~last_call.ok
    /\ last_call.result = "parameter error"
    /\ Len(current_accumulator.data.pain_points) = 1

\* a fault in the body of save_contact reported as "failed"
C29_BodyFaultFailed ==
    /\ last_call.name = "save_contact"
    /\ Binds(last_call.name, last_call.params)
    /\ ~last_call.ok
    /\ last_call.result = "failed"

(***************************************************************************)
(* C30.  An action or follow-up entry whose function name is missing or    *)
(* empty is skipped silently: execute is not called for it, no missing-    *)
(* action counter changes, the fact store and the current source locator   *)
(* are unchanged, and the remaining entries of the decision are still      *)
(* dispatched in order.                                                    *)
(***************************************************************************)
\* the step handled one position of the decision without calling execute
Skipped ==
    /\ Len(dispatched') = Len(dispatched) + 1
    /\ ~dispatched'[Len(dispatched')].executed

\* C30: the step that passes over a nameless entry makes no execute call,
\* leaves the missing-action counts, their log, the fact store and the
\* locator as they were, keeps the run going and moves on to the next
\* position in the loop's order, or to the status check after the last one;
\* and a position is handled without execute only for such an entry
C30_NamelessSkipped ==
    [][ /\ Skipped
           => /\ ~Called
              /\ missing_functions' = missing_functions
              /\ missing_log' = missing_log
              /\ current_accumulator' = current_accumulator
              /\ current_source_url' = current_source_url
              /\ terminal' = "running"
              /\ IsPrefix(dispatched, dispatched')
              /\ dispatched'[Len(dispatched')].list =
                    DispatchOrder(decision)[Len(dispatched')].list
              /\ dispatched'[Len(dispatched')].index =
                    DispatchOrder(decision)[Len(dispatched')].index
              /\ cursor' = cursor + 1
              /\ pc' = IF Len(dispatched') = decision.actions + decision.next_steps
                       THEN "status"
                       ELSE "dispatch"
        /\ (Len(dispatched') = Len(dispatched) + 1 /\ Called)
           => last_call'.name # "" /\ dispatched'[Len(dispatched')].executed
      ]_vars

\* a nameless action passed over, then an unknown follow-up counted
C30_Witness ==
    /\ HasAccumulator
    /\ decision.actions = 1
    /\ decision.next_steps = 1
    /\ Len(dispatched) = 2
    /\ ~dispatched[1].executed
    /\ dispatched[2].executed
    /\ dispatched[2].list = "next_steps"
    /\ last_call.result = "not implemented"
    /\ "" \notin DOMAIN missing_functions
    /\ Cardinality(DOMAIN missing_functions) = 1

====
